---- MODULE Spec2Model ----
(***************************************************************************)
(* The process supervisor of intermediary.c: main creates a process group, *)
(* first_fork and second_fork place three processes (Launcher,             *)
(* Intermediate, Target) at three depths, the outer two run run_watchdog   *)
(* and the innermost replaces its image with the command.                  *)
(*                                                                         *)
(* Operating-system semantics used by the model (POSIX):                   *)
(*  - a terminated process is a zombie until its parent waits for it; a    *)
(*    process whose parent is no longer running is reaped by init;         *)
(*  - kill(pid, 0) succeeds for running processes and for zombies;         *)
(*  - killpg delivers the signal to every member of the group, the caller  *)
(*    included; a signal sent to oneself is delivered before killpg        *)
(*    returns;                                                             *)
(*  - the program installs no handler, so SIGTERM has its default action   *)
(*    (terminate) unless the disposition inherited through exec is         *)
(*    "ignore"; SIGKILL is always fatal;                                   *)
(*  - SIGCHLD has its default disposition: children stay zombies until     *)
(*    waited for;                                                          *)
(*  - exit(n) and a return of n from main give the exit status n mod 256.  *)
(***************************************************************************)
EXTENDS Integers, FiniteSets, Sequences, TLC

\* ---------------------------------------------------------------- constants

SIGTERM == 15
SIGKILL == 9

\* Children the Launcher already had when it was executed (inherited through
\* exec): at most MaxOther of them.
MaxOther == 1

\* Exit codes the command may pass to exit(), and signals that may kill it.
ExitCodes == {0, 1, 3, 255}
KillSignals == {2, SIGKILL, SIGTERM}

Watchdogs == {"Launcher", "Intermediate"}
Procs == {"Launcher", "Intermediate", "Target"}
NoPid == "NoPid"

VARIABLES
    argc,            \* main's argc: 1 (no command given) or 2
    termIgnored,     \* SIGTERM disposition inherited by main is "ignore"
    parent,          \* the original parent: "alive", "zombie" or "gone"
    st,              \* per process: "none", "running", "zombie", "gone"
    status,          \* per process: its wait status once terminated
    pc,              \* per process: the place in the code it is at
    pgid,            \* per process: its process group id
    parent_pid,      \* per Watchdog: run_watchdog's parent_pid argument
    child_pid,       \* per Watchdog: run_watchdog's child_pid argument
    others,          \* the Launcher's other children: [running, zombie]
    execed,          \* the Target replaced its image with the command
    tgtIgnoresTerm,  \* the command ignores (or survives) SIGTERM
    path,            \* per Watchdog: the branch on which it left the loop
    sent,            \* the killpg calls made so far: sequence of [by, sig]
    extKilled        \* Watchdogs killed by a signal from outside: records
                     \* [who, parentAlive], parentAlive telling whether the
                     \* original parent was alive at that moment

vars == <<argc, termIgnored, parent, st, status, pc, pgid, parent_pid,
          child_pid, others, execed, tgtIgnoresTerm, path, sent, extKilled>>

\* ------------------------------------------------------------ wait statuses

NoStatus == [kind |-> "none", val |-> 0]
Exited(n) == [kind |-> "exited", val |-> n % 256]
Signaled(s) == [kind |-> "signaled", val |-> s]

WIFEXITED(s) == s.kind = "exited"
WEXITSTATUS(s) == s.val
WIFSIGNALED(s) == s.kind = "signaled"
WTERMSIG(s) == s.val

\* ------------------------------------------------------------------ helpers

ParentOf(p) ==
    CASE p = "Target" -> "Intermediate"
      [] p = "Intermediate" -> "Launcher"
      [] OTHER -> "Parent"

Terminated(p) == st[p] \in {"zombie", "gone"}

\* The Watchdogs killed by a signal from outside.
Killed == {k.who : k \in extKilled}

\* Mutant of getpid: getppid() called in its place.
getppid_for_getpid(p) == ParentOf(p)

\* getpid() of p, and getpgrp() of p.
getpid(p) == p
getpgrp(p) == pgid[p]

\* Mutant of is_parent_alive: a comparison that never reports a death
\* (kill(parent_pid, 0) <= 0).
is_parent_alive_always(id) == TRUE

\* Mutant of is_parent_alive: the comparison inverted
\* (kill(parent_pid, 0) != 0).
is_parent_alive_inverted(id) ==
    IF id = "Parent" THEN parent = "gone"
    ELSE st[id] \in {"none", "gone"}

\* is_parent_alive: kill(parent_pid, 0) == 0.
is_parent_alive(id) ==
    IF id = "Parent" THEN parent \in {"alive", "zombie"}
    ELSE st[id] \in {"running", "zombie"}

\* The disposition of SIGTERM in p: the command chooses its own, the
\* supervisor's code keeps the inherited one.
IgnoresTerm(p) ==
    IF p = "Target" /\ pc[p] = "cmd" THEN tgtIgnoresTerm ELSE termIgnored

\* The processes that a signal sig sent to group g terminates.
Hit(g, sig) ==
    {p \in Procs : /\ st[p] = "running"
                   /\ pgid[p] = g
                   /\ (sig = SIGKILL \/ ~IgnoresTerm(p))}

\* The state after process p terminates with wait status s.
StAfterEnd(p) == [st EXCEPT ![p] = "zombie"]
StatusAfterEnd(p, s) == [status EXCEPT ![p] = s]
PcAfterEnd(p) == [pc EXCEPT ![p] = "done"]

\* p calls exit(n), or main returns n.
ExitWith(p, n) ==
    /\ st' = StAfterEnd(p)
    /\ status' = StatusAfterEnd(p, Exited(n))
    /\ pc' = PcAfterEnd(p)

\* -------------------------------------------------------------------- Init

Init ==
    /\ argc \in {1, 2}
    /\ termIgnored \in BOOLEAN
    /\ parent = "alive"
    /\ st = [p \in Procs |-> IF p = "Launcher" THEN "running" ELSE "none"]
    /\ status = [p \in Procs |-> NoStatus]
    /\ pc = [p \in Procs |-> IF p = "Launcher" THEN "main" ELSE "unborn"]
    /\ pgid = [p \in Procs |-> IF p = "Launcher" THEN "Caller" ELSE NoPid]
    /\ parent_pid = [w \in Watchdogs |-> NoPid]
    /\ child_pid = [w \in Watchdogs |-> NoPid]
    /\ others \in {o \in [running : 0..MaxOther, zombie : 0..MaxOther] :
                     o.running + o.zombie <= MaxOther}
    /\ execed = FALSE
    /\ tgtIgnoresTerm = FALSE
    /\ path = [w \in Watchdogs |-> "NONE"]
    /\ sent = <<>>
    /\ extKilled = {}

\* --------------------------------------------------------- start-up (main)

\* main, lines 187-198: getppid(), create_process_group() (setpgrp may fail,
\* and then main returns 1), then first_fork.
Main ==
    /\ pc["Launcher"] = "main" /\ st["Launcher"] = "running"
    /\ parent_pid' = [parent_pid EXCEPT !["Launcher"] = "Parent"]
    /\ \/ /\ pgid' = [pgid EXCEPT !["Launcher"] = getpid("Launcher")]
          /\ pc' = [pc EXCEPT !["Launcher"] = "first_fork"]
          /\ UNCHANGED <<st, status>>
       \/ /\ ExitWith("Launcher", 1)
          /\ UNCHANGED pgid
    /\ UNCHANGED <<argc, termIgnored, parent, child_pid, others, execed,
                   tgtIgnoresTerm, path, sent, extKilled>>

\* What first_fork and second_fork return when fork() fails; main returns it.
ForkFailed == -1

\* first_fork, lines 166-185.
FirstFork ==
    /\ pc["Launcher"] = "first_fork" /\ st["Launcher"] = "running"
    /\ \/ /\ ExitWith("Launcher", ForkFailed)
          /\ UNCHANGED <<pgid, parent_pid, child_pid, path>>
       \/ /\ st' = [st EXCEPT !["Intermediate"] = "running"]
          /\ pgid' = [pgid EXCEPT !["Intermediate"] = pgid["Launcher"]]
          /\ parent_pid' = [parent_pid EXCEPT
                              !["Intermediate"] = getpid("Launcher")]
          /\ child_pid' = [child_pid EXCEPT !["Launcher"] = "Intermediate"]
          /\ pc' = [pc EXCEPT !["Launcher"] = "probe",
                              !["Intermediate"] = "second_fork"]
          /\ path' = [path EXCEPT !["Launcher"] = "POLLING"]
          /\ UNCHANGED status
    /\ UNCHANGED <<argc, termIgnored, parent, others, execed, tgtIgnoresTerm,
                   sent, extKilled>>

\* Mutant of SecondFork: the test of fork's result inverted, so that the new
\* process takes the Watchdog branch and the Intermediate the exec branch.
SecondForkRolesSwapped ==
    /\ pc["Intermediate"] = "second_fork" /\ st["Intermediate"] = "running"
    /\ st' = [st EXCEPT !["Target"] = "running"]
    /\ pgid' = [pgid EXCEPT !["Target"] = pgid["Intermediate"]]
    /\ child_pid' = [child_pid EXCEPT !["Intermediate"] = "Target"]
    /\ pc' = [pc EXCEPT !["Intermediate"] = "exec_program",
                        !["Target"] = "probe"]
    /\ UNCHANGED <<argc, termIgnored, parent, status, parent_pid, others,
                   execed, tgtIgnoresTerm, path, sent, extKilled>>

\* second_fork, lines 144-163, run by the Intermediate.
SecondFork ==
    /\ pc["Intermediate"] = "second_fork" /\ st["Intermediate"] = "running"
    /\ \/ /\ ExitWith("Intermediate", ForkFailed)
          /\ UNCHANGED <<pgid, child_pid, path>>
       \/ /\ st' = [st EXCEPT !["Target"] = "running"]
          /\ pgid' = [pgid EXCEPT !["Target"] = pgid["Intermediate"]]
          /\ child_pid' = [child_pid EXCEPT !["Intermediate"] = "Target"]
          /\ pc' = [pc EXCEPT !["Intermediate"] = "probe",
                              !["Target"] = "exec_program"]
          /\ path' = [path EXCEPT !["Intermediate"] = "POLLING"]
          /\ UNCHANGED status
    /\ UNCHANGED <<argc, termIgnored, parent, parent_pid, others, execed,
                   tgtIgnoresTerm, sent, extKilled>>

\* Mutant of UsageError: the bound off by one (argc < 1).
UsageErrorOffByOne(n) == n < 1

\* exec_program, line 72: the usage check.
UsageError(n) == n < 2

\* Mutant of ExecProgramExit: exit(0) after the diagnostic.
ExecProgramExitZero == Exited(0)

\* exec_program, lines 74 and 80: the status after a usage error or a failed
\* execvp.
ExecProgramExit == Exited(1)

\* exec_program, lines 71-81, run by the Target: usage error, or execvp,
\* which either replaces the image (the command then chooses its SIGTERM
\* disposition) or fails.
ExecProgram ==
    /\ pc["Target"] = "exec_program" /\ st["Target"] = "running"
    /\ IF UsageError(argc)
       THEN /\ st' = StAfterEnd("Target")
            /\ status' = StatusAfterEnd("Target", ExecProgramExit)
            /\ pc' = [pc EXCEPT !["Target"] = "usage_error"]
            /\ UNCHANGED <<execed, tgtIgnoresTerm>>
       ELSE \/ /\ execed' = TRUE
               /\ tgtIgnoresTerm' \in BOOLEAN
               /\ pc' = [pc EXCEPT !["Target"] = "cmd"]
               /\ UNCHANGED <<st, status>>
            \/ /\ st' = StAfterEnd("Target")
               /\ status' = StatusAfterEnd("Target", ExecProgramExit)
               /\ pc' = [pc EXCEPT !["Target"] = "exec_failed"]
               /\ UNCHANGED <<execed, tgtIgnoresTerm>>
    /\ UNCHANGED <<argc, termIgnored, parent, pgid, parent_pid, child_pid,
                   others, path, sent, extKilled>>

\* ------------------------------------------------------------- the command

\* The command exits normally with code c.
TargetExits ==
    /\ pc["Target"] = "cmd" /\ st["Target"] = "running"
    /\ \E c \in ExitCodes : ExitWith("Target", c)
    /\ UNCHANGED <<argc, termIgnored, parent, pgid, parent_pid, child_pid,
                   others, execed, tgtIgnoresTerm, path, sent, extKilled>>

\* The command is killed by a signal s that does not come from the
\* supervisor.
TargetSignaled ==
    /\ pc["Target"] = "cmd" /\ st["Target"] = "running"
    /\ \E s \in KillSignals :
          /\ s = SIGTERM => ~tgtIgnoresTerm
          /\ st' = StAfterEnd("Target")
          /\ status' = StatusAfterEnd("Target", Signaled(s))
          /\ pc' = PcAfterEnd("Target")
    /\ UNCHANGED <<argc, termIgnored, parent, pgid, parent_pid, child_pid,
                   others, execed, tgtIgnoresTerm, path, sent, extKilled>>

\* ------------------------------------------------------ kill_process_group

\* Mutant of IsGroupLeader: the test inverted (pgid != getpid()).
IsGroupLeaderInverted(p) == getpgrp(p) # getpid(p)

\* Mutant of IsGroupLeader: the early return left out.
IsGroupLeaderNever(p) == FALSE

\* kill_process_group, line 38: pgid == getpid().
IsGroupLeader(p) == getpgrp(p) = getpid(p)

\* killpg(getpgrp(), sig) called by w: every running member of the group
\* that does not ignore sig terminates by it, w included; if w survives it
\* goes on at `next`.
Killpg(w, sig, next) ==
    LET hit == Hit(getpgrp(w), sig) IN
    /\ sent' = Append(sent, [by |-> w, sig |-> sig])
    /\ st' = [p \in Procs |-> IF p \in hit THEN "zombie" ELSE st[p]]
    /\ status' = [p \in Procs |->
                    IF p \in hit THEN Signaled(sig) ELSE status[p]]
    /\ pc' = [p \in Procs |->
                IF p \in hit THEN "done" ELSE IF p = w THEN next ELSE pc[p]]

\* run_watchdog, line 92: the liveness probe; on failure the Watchdog enters
\* kill_process_group (line 94).
Probe(w) ==
    /\ pc[w] = "probe" /\ st[w] = "running"
    /\ IF is_parent_alive(parent_pid[w])
       THEN /\ pc' = [pc EXCEPT ![w] = "wait"]
            /\ UNCHANGED path
       ELSE /\ pc' = [pc EXCEPT ![w] = "kpg"]
            /\ path' = [path EXCEPT ![w] = "ANCESTOR_DEAD"]
    /\ UNCHANGED <<argc, termIgnored, parent, st, status, pgid, parent_pid,
                   child_pid, others, execed, tgtIgnoresTerm, sent,
                   extKilled>>

\* kill_process_group, lines 34-41: a group leader returns at once.
KpgCheck(w) ==
    /\ pc[w] = "kpg" /\ st[w] = "running"
    /\ pc' = [pc EXCEPT ![w] = IF IsGroupLeader(w) THEN "exit_dead"
                                ELSE "kpg_term"]
    /\ UNCHANGED <<argc, termIgnored, parent, st, status, pgid, parent_pid,
                   child_pid, others, execed, tgtIgnoresTerm, path, sent,
                   extKilled>>

\* kill_process_group, lines 44-50: killpg(pgid, SIGTERM).
KpgTerm(w) ==
    /\ pc[w] = "kpg_term" /\ st[w] = "running"
    /\ Killpg(w, SIGTERM, "kpg_grace")
    /\ UNCHANGED <<argc, termIgnored, parent, pgid, parent_pid, child_pid,
                   others, execed, tgtIgnoresTerm, path, extKilled>>

\* kill_process_group, line 53: usleep(100000).
KpgGrace(w) ==
    /\ pc[w] = "kpg_grace" /\ st[w] = "running"
    /\ pc' = [pc EXCEPT ![w] = "kpg_kill"]
    /\ UNCHANGED <<argc, termIgnored, parent, st, status, pgid, parent_pid,
                   child_pid, others, execed, tgtIgnoresTerm, path, sent,
                   extKilled>>

\* kill_process_group, lines 56-62: killpg(pgid, SIGKILL).
KpgKill(w) ==
    /\ pc[w] = "kpg_kill" /\ st[w] = "running"
    /\ Killpg(w, SIGKILL, "exit_dead")
    /\ UNCHANGED <<argc, termIgnored, parent, pgid, parent_pid, child_pid,
                   others, execed, tgtIgnoresTerm, path, extKilled>>

\* Mutant of WatchdogExitCode: exit(0) after kill_process_group.
WatchdogExitCodeZero(branch) ==
    CASE branch = "ANCESTOR_DEAD" -> 0
      [] branch = "CHILD_LOST" -> 0
      [] OTHER -> 1

\* The code passed to exit() on the branches of run_watchdog that do not
\* translate a child's status: line 95, line 116, line 119.
WatchdogExitCode(branch) ==
    CASE branch = "ANCESTOR_DEAD" -> 1
      [] branch = "CHILD_LOST" -> 0
      [] OTHER -> 1

\* run_watchdog, line 95: exit(1) after kill_process_group returned.
ExitDead(w) ==
    /\ pc[w] = "exit_dead" /\ st[w] = "running"
    /\ ExitWith(w, WatchdogExitCode("ANCESTOR_DEAD"))
    /\ UNCHANGED <<argc, termIgnored, parent, pgid, parent_pid, child_pid,
                   others, execed, tgtIgnoresTerm, path, sent, extKilled>>

\* ------------------------------------------------------------ run_watchdog

\* waitpid(child_pid, &status, WNOHANG) called by w.
WaitpidChild(w) ==
    LET c == child_pid[w] IN
    IF st[c] = "zombie"
    THEN [result |-> c, errno |-> "none", status |-> status[c]]
    ELSE IF st[c] = "running"
    THEN [result |-> "zero", errno |-> "none", status |-> NoStatus]
    ELSE [result |-> "minus1", errno |-> "ECHILD", status |-> NoStatus]

\* waitpid(-1, &status, WNOHANG) called by w: any terminated child, among
\* the Supervised Child and (for the Launcher) its other children.
WaitpidAny(w) ==
    LET c == child_pid[w]
        mine == IF st[c] = "zombie"
                THEN {[result |-> c, errno |-> "none", status |-> status[c]]}
                ELSE {}
        other == IF w = "Launcher" /\ others.zombie > 0
                 THEN {[result |-> "Other", errno |-> "none",
                        status |-> Exited(0)]}
                 ELSE {}
        alive == st[c] = "running" \/ (w = "Launcher" /\ others.running > 0)
    IN  IF mine \cup other # {} THEN mine \cup other
        ELSE IF alive
        THEN {[result |-> "zero", errno |-> "none", status |-> NoStatus]}
        ELSE {[result |-> "minus1", errno |-> "ECHILD", status |-> NoStatus]}

\* Mutant of ChildExitCode: exit(status) with the raw wait status, whose low
\* byte is 0 after a normal exit, instead of WEXITSTATUS(status).
ChildExitCodeRawStatus(s) ==
    IF WIFEXITED(s) THEN WEXITSTATUS(s) * 256
    ELSE IF WIFSIGNALED(s) THEN 128 + WTERMSIG(s)
    ELSE 1

\* Mutant of ChildExitCode: the signal number without the 128 offset.
ChildExitCodeNoOffset(s) ==
    IF WIFEXITED(s) THEN WEXITSTATUS(s)
    ELSE IF WIFSIGNALED(s) THEN WTERMSIG(s)
    ELSE 1

\* run_watchdog, lines 102-113: the exit code for the status the targeted
\* wait collected.
ChildExitCode(s) ==
    IF WIFEXITED(s) THEN WEXITSTATUS(s)
    ELSE IF WIFSIGNALED(s) THEN 128 + WTERMSIG(s)
    ELSE 1

\* Mutant of SweepExitCode: the reap loop exits with 1 for the monitored
\* child instead of translating its status.
SweepExitCodeAlwaysOne(s) == 1

\* run_watchdog, lines 126-132: the same translation in the reap loop.
SweepExitCode(s) ==
    IF WIFEXITED(s) THEN WEXITSTATUS(s)
    ELSE IF WIFSIGNALED(s) THEN 128 + WTERMSIG(s)
    ELSE 1

\* Mutant of AfterWait: the ECHILD branch left out, so the loop goes on.
AfterWaitKeepsPolling(w, r) ==
    IF r.result = child_pid[w]
    THEN [exit |-> TRUE, code |-> ChildExitCode(r.status),
          path |-> "CHILD_EXITED"]
    ELSE [exit |-> FALSE, code |-> 0, path |-> "POLLING"]

\* run_watchdog, lines 100-120: what the Watchdog does with the result r of
\* the targeted wait.
AfterWait(w, r) ==
    IF r.result = child_pid[w]
    THEN [exit |-> TRUE, code |-> ChildExitCode(r.status),
          path |-> "CHILD_EXITED"]
    ELSE IF r.result = "minus1" /\ r.errno = "ECHILD"
    THEN [exit |-> TRUE, code |-> WatchdogExitCode("CHILD_LOST"),
          path |-> "CHILD_LOST"]
    ELSE IF r.result = "minus1"
    THEN [exit |-> TRUE, code |-> WatchdogExitCode("WAIT_ERROR"),
          path |-> "WAIT_ERROR"]
    ELSE [exit |-> FALSE, code |-> 0, path |-> "POLLING"]

\* Mutant of ReapAndExit: the Watchdog exits without having collected the
\* child's status, which stays a zombie.
ExitWithoutReap(w, c, n) == ExitWith(w, n)

\* w collects the status of child c (c is reaped) and exits with code n.
ReapAndExit(w, c, n) ==
    /\ st' = [st EXCEPT ![c] = "gone", ![w] = "zombie"]
    /\ status' = StatusAfterEnd(w, Exited(n))
    /\ pc' = PcAfterEnd(w)

\* Mutant of WaitChild: the wait without WNOHANG, which returns only once the
\* child has changed state.
WaitChildBlocking(w) ==
    /\ pc[w] = "wait" /\ st[w] = "running"
    /\ st[child_pid[w]] # "running"
    /\ LET r == WaitpidChild(w)
           o == AfterWait(w, r)
       IN  IF o.exit
           THEN /\ IF r.result = child_pid[w]
                   THEN ReapAndExit(w, child_pid[w], o.code)
                   ELSE ExitWith(w, o.code)
                /\ path' = [path EXCEPT ![w] = o.path]
           ELSE /\ pc' = [pc EXCEPT ![w] = "sweep"]
                /\ UNCHANGED <<st, status, path>>
    /\ UNCHANGED <<argc, termIgnored, parent, pgid, parent_pid, child_pid,
                   others, execed, tgtIgnoresTerm, sent, extKilled>>

\* run_watchdog, lines 99-120: the targeted non-blocking wait.
WaitChild(w) ==
    /\ pc[w] = "wait" /\ st[w] = "running"
    /\ LET r == WaitpidChild(w)
           o == AfterWait(w, r)
       IN  IF o.exit
           THEN /\ IF r.result = child_pid[w]
                   THEN ReapAndExit(w, child_pid[w], o.code)
                   ELSE ExitWith(w, o.code)
                /\ path' = [path EXCEPT ![w] = o.path]
           ELSE /\ pc' = [pc EXCEPT ![w] = "sweep"]
                /\ UNCHANGED <<st, status, path>>
    /\ UNCHANGED <<argc, termIgnored, parent, pgid, parent_pid, child_pid,
                   others, execed, tgtIgnoresTerm, sent, extKilled>>

\* run_watchdog, lines 123-136: one evaluation of the reap loop's condition
\* and, when a child was reaped, of its body.
Sweep(w) ==
    /\ pc[w] = "sweep" /\ st[w] = "running"
    /\ \E r \in WaitpidAny(w) :
          IF r.result = child_pid[w]
          THEN /\ ReapAndExit(w, child_pid[w], SweepExitCode(r.status))
               /\ path' = [path EXCEPT ![w] = "CHILD_EXITED"]
               /\ UNCHANGED others
          ELSE IF r.result = "Other"
          THEN /\ others' = [others EXCEPT !.zombie = @ - 1]
               /\ UNCHANGED <<st, status, pc, path>>
          ELSE /\ pc' = [pc EXCEPT ![w] = "sleep"]
               /\ UNCHANGED <<st, status, path, others>>
    /\ UNCHANGED <<argc, termIgnored, parent, pgid, parent_pid, child_pid,
                   execed, tgtIgnoresTerm, sent, extKilled>>

\* run_watchdog, line 139: usleep(50000), then the next iteration.
Sleep(w) ==
    /\ pc[w] = "sleep" /\ st[w] = "running"
    /\ pc' = [pc EXCEPT ![w] = "probe"]
    /\ UNCHANGED <<argc, termIgnored, parent, st, status, pgid, parent_pid,
                   child_pid, others, execed, tgtIgnoresTerm, path, sent,
                   extKilled>>

\* ------------------------------------------------------------- environment

\* The original parent terminates (after main has read getppid()); it is a
\* zombie until its own parent collects it.
ParentDies ==
    /\ parent = "alive" /\ pc["Launcher"] # "main"
    /\ parent' = "zombie"
    /\ UNCHANGED <<argc, termIgnored, st, status, pc, pgid, parent_pid,
                   child_pid, others, execed, tgtIgnoresTerm, path, sent,
                   extKilled>>

ParentReaped ==
    /\ parent = "zombie"
    /\ parent' = "gone"
    /\ UNCHANGED <<argc, termIgnored, st, status, pc, pgid, parent_pid,
                   child_pid, others, execed, tgtIgnoresTerm, path, sent,
                   extKilled>>

\* The original parent waits for the Launcher.
CallerReaps ==
    /\ st["Launcher"] = "zombie" /\ parent = "alive"
    /\ st' = [st EXCEPT !["Launcher"] = "gone"]
    /\ UNCHANGED <<argc, termIgnored, parent, status, pc, pgid, parent_pid,
                   child_pid, others, execed, tgtIgnoresTerm, path, sent,
                   extKilled>>

\* A zombie whose parent is no longer running belongs to init, which reaps.
InitReaps(p) ==
    /\ st[p] = "zombie"
    /\ IF p = "Launcher" THEN parent # "alive"
       ELSE st[ParentOf(p)] # "running"
    /\ st' = [st EXCEPT ![p] = "gone"]
    /\ UNCHANGED <<argc, termIgnored, parent, status, pc, pgid, parent_pid,
                   child_pid, others, execed, tgtIgnoresTerm, path, sent,
                   extKilled>>

\* One of the Launcher's other children terminates.
OtherExits ==
    /\ st["Launcher"] = "running" /\ others.running > 0
    /\ others' = [running |-> others.running - 1,
                  zombie |-> others.zombie + 1]
    /\ UNCHANGED <<argc, termIgnored, parent, st, status, pc, pgid,
                   parent_pid, child_pid, execed, tgtIgnoresTerm, path, sent,
                   extKilled>>

\* A signal from outside the supervisor terminates a Watchdog.
ExtKill(w) ==
    /\ st[w] = "running"
    /\ \E s \in {SIGTERM, SIGKILL} :
          /\ s = SIGTERM => ~termIgnored
          /\ st' = StAfterEnd(w)
          /\ status' = StatusAfterEnd(w, Signaled(s))
          /\ pc' = PcAfterEnd(w)
    /\ extKilled' = extKilled \cup {[who |-> w, parentAlive |-> parent = "alive"]}
    /\ UNCHANGED <<argc, termIgnored, parent, pgid, parent_pid, child_pid,
                   others, execed, tgtIgnoresTerm, path, sent>>

\* ------------------------------------------------------------ specification

WatchdogStep(w) ==
    \/ Probe(w) \/ KpgCheck(w) \/ KpgTerm(w) \/ KpgGrace(w) \/ KpgKill(w)
    \/ ExitDead(w) \/ WaitChild(w) \/ Sweep(w) \/ Sleep(w)

Next ==
    \/ Main
    \/ FirstFork
    \/ SecondFork
    \/ ExecProgram
    \/ TargetExits
    \/ TargetSignaled
    \/ \E w \in Watchdogs : WatchdogStep(w)
    \/ ParentDies
    \/ ParentReaped
    \/ CallerReaps
    \/ \E p \in Procs : InitReaps(p)
    \/ OtherExits
    \/ \E w \in Watchdogs : ExtKill(w)

Spec == Init /\ [][Next]_vars

\* The scheduler runs every process of the supervisor that can take a step,
\* and init reaps the zombies it inherits; nothing obliges the original
\* parent to die, the command to end, or an outside signal to arrive.
FairSpec ==
    /\ Spec
    /\ WF_vars(Main) /\ WF_vars(FirstFork) /\ WF_vars(SecondFork)
    /\ WF_vars(ExecProgram)
    /\ \A w \in Watchdogs : WF_vars(WatchdogStep(w))
    /\ \A p \in Procs : WF_vars(InitReaps(p))
    /\ WF_vars(ParentReaped)

\* ------------------------------------------------------------------ claims

\* The original parent is alive and no Watchdog was killed from outside.
Undisturbed == parent = "alive" /\ extKilled = {}

\* C1: if the Target exits normally with code c while the original parent
\* and both Watchdogs stay alive, the Intermediate exits with c and the
\* Launcher exits with exactly c.
C1_ExitCodePropagates ==
    (WIFEXITED(status["Target"]) /\ Undisturbed) =>
        \A w \in Watchdogs :
            Terminated(w) => status[w] = Exited(WEXITSTATUS(status["Target"]))

\* C1 witness: the command exited with 255 and both Watchdogs exited with 255
\* on the child-exit branch.
C1_Witness ==
    /\ execed /\ Undisturbed
    /\ status["Target"] = Exited(255)
    /\ status["Intermediate"] = Exited(255)
    /\ status["Launcher"] = Exited(255)
    /\ path["Launcher"] = "CHILD_EXITED"

\* C2: if the Target is killed by signal s while the original parent and both
\* Watchdogs stay alive, the Intermediate exits with 128+s and the Launcher,
\* which sees a normal exit of the Intermediate, exits with exactly 128+s.
C2_SignalPropagates ==
    (WIFSIGNALED(status["Target"]) /\ Undisturbed) =>
        /\ \A w \in Watchdogs :
              Terminated(w) =>
                  status[w] = Exited(128 + WTERMSIG(status["Target"]))
        /\ Terminated("Launcher") => WIFEXITED(status["Intermediate"])

\* C2 witness: the command was killed by SIGKILL and both Watchdogs exited
\* with 137.
C2_Witness ==
    /\ Undisturbed
    /\ status["Target"] = Signaled(SIGKILL)
    /\ status["Intermediate"] = Exited(128 + SIGKILL)
    /\ status["Launcher"] = Exited(128 + SIGKILL)

C4_GroupGoneAfterParentDeath ==
    (parent # "alive" /\ extKilled = {}
        /\ Terminated("Launcher") /\ Terminated("Intermediate"))
            => st["Target"] # "running"

\* C5: if execvp fails the Target exits with status 1, the Intermediate takes
\* that as an ordinary child exit and exits with 1, and the Launcher
\* eventually exits with 1 (unless a Watchdog is killed from outside).
C5_ExecFailurePropagates ==
    /\ [](pc["Target"] = "exec_failed" =>
            /\ status["Target"] = Exited(1)
            /\ path["Intermediate"] = "CHILD_EXITED"
                  => status["Intermediate"] = Exited(1)
            /\ path["Intermediate"] \in {"POLLING", "CHILD_EXITED",
                                         "ANCESTOR_DEAD"})
    /\ (pc["Target"] = "exec_failed")
          ~> (status["Launcher"] = Exited(1) \/ extKilled # {})

\* C5 witness: execvp failed and the status 1 went up through both Watchdogs
\* on the child-exit branch.
C5_Witness ==
    /\ pc["Target"] = "exec_failed" /\ Undisturbed
    /\ path["Intermediate"] = "CHILD_EXITED"
    /\ path["Launcher"] = "CHILD_EXITED"
    /\ status["Launcher"] = Exited(1)

\* C6 (as claimed): invoked with no command argument, the supervisor never
\* executes a command and exits with status 1.
C6_UsageErrorExitsOne ==
    argc < 2 =>
        /\ ~execed
        /\ (Terminated("Launcher") /\ extKilled = {})
              => status["Launcher"] = Exited(1)

\* A duplication failed at the first level (in the Launcher, after setpgrp
\* succeeded) or at the second level (in the Intermediate).
FirstForkFailed ==
    /\ pc["Launcher"] = "done" /\ path["Launcher"] = "NONE"
    /\ pgid["Launcher"] = getpid("Launcher") /\ extKilled = {}

SecondForkFailed ==
    /\ pc["Intermediate"] = "done" /\ path["Intermediate"] = "NONE"
    /\ extKilled = {}

\* C7 (as claimed): if a duplication fails at the first or at the second
\* level, the exit code the original caller observes is 1.
C7_ForkFailureExitsOne ==
    /\ FirstForkFailed => status["Launcher"] = Exited(1)
    /\ (SecondForkFailed /\ path["Launcher"] = "CHILD_EXITED")
          => status["Launcher"] = Exited(1)

\* C8 (as claimed, in the form a finite run refutes): the Launcher's layer
\* alone terminates the group; if the Intermediate was killed while the
\* original parent was alive, and the Launcher then detected the original
\* parent's death and went through the Termination Protocol, the Target is
\* no longer running.
C8_LauncherAloneKillsGroup ==
    (/\ [who |-> "Intermediate", parentAlive |-> TRUE] \in extKilled
     /\ "Launcher" \notin Killed
     /\ sent = <<>>
     /\ path["Launcher"] = "ANCESTOR_DEAD" /\ Terminated("Launcher"))
        => st["Target"] # "running"

\* C8 (amended): only the Intermediate's layer signals the group; once the
\* Intermediate is no longer running no Watchdog delivers any signal, so a
\* Target still running then is not terminated by the supervisor.
C8_NoSignalOnceIntermediateDead ==
    [][st["Intermediate"] # "running" => sent' = sent]_vars

\* C8 witness: the Intermediate was killed while the command was running,
\* the original parent then died, the Launcher went through
\* kill_process_group and exited, and the command is still running.
C8_Witness ==
    /\ [who |-> "Intermediate", parentAlive |-> TRUE] \in extKilled
    /\ "Launcher" \notin Killed
    /\ parent = "gone"
    /\ path["Launcher"] = "ANCESTOR_DEAD" /\ Terminated("Launcher")
    /\ pc["Target"] = "cmd" /\ st["Target"] = "running"
    /\ sent = <<>>

\* C9 (as claimed, in the form a finite run refutes): a non-leader Watchdog
\* that started the Termination Protocol and has left it sent SIGTERM, then
\* SIGKILL, and returned to run_watchdog, which exited with its exit call.
C9_ForcedPhaseReached ==
    \A w \in Watchdogs :
        (/\ path[w] = "ANCESTOR_DEAD" /\ ~IsGroupLeader(w)
         /\ Terminated(w) /\ w \notin Killed)
            => /\ sent = <<[by |-> w, sig |-> SIGTERM],
                           [by |-> w, sig |-> SIGKILL]>>
               /\ WIFEXITED(status[w])

\* C10: a Watchdog that leads its process group never signals it: every
\* killpg call was made by the Intermediate, which is not the leader, and the
\* Launcher is never at a killpg call.
C10_LeaderNeverSignals ==
    /\ \A i \in 1..Len(sent) :
          /\ sent[i].by = "Intermediate"
          /\ ~IsGroupLeader(sent[i].by)
    /\ pc["Launcher"] \notin {"kpg_term", "kpg_grace", "kpg_kill"}
    /\ pc["Launcher"] \in {"kpg", "exit_dead"} => IsGroupLeader("Launcher")

\* C10 witness: the Launcher has returned from kill_process_group without a
\* signal sent, while the Intermediate and the command are running.
C10_Witness ==
    /\ pc["Launcher"] = "exit_dead" /\ sent = <<>>
    /\ st["Intermediate"] = "running" /\ st["Target"] = "running"

\* The process w probes no longer exists (kill(parent_pid, 0) fails).
AncestorGone(w) ==
    IF parent_pid[w] = "Parent" THEN parent = "gone"
    ELSE st[parent_pid[w]] \in {"none", "gone"}

\* Watchdog w takes a step of its own (it is not terminated by a signal).
StepsOn(w) == st[w] = "running" /\ pc'[w] # pc[w] /\ pc'[w] # "done"

\* C11: in every iteration the liveness probe comes first, then the targeted
\* wait, then the reap loop; a Watchdog that starts an iteration with its
\* ancestor gone and its Supervised Child terminated enters
\* kill_process_group, does not collect the child's status and never leaves
\* the ancestor-dead branch.
C11_ProbeBeforeChildCheck ==
    [][\A w \in Watchdogs :
          /\ (pc[w] = "probe" /\ StepsOn(w) /\ AncestorGone(w))
                => (pc'[w] = "kpg" /\ path'[w] = "ANCESTOR_DEAD")
          /\ (pc[w] = "probe" /\ StepsOn(w) /\ ~AncestorGone(w))
                => pc'[w] = "wait"
          /\ (pc[w] = "wait" /\ StepsOn(w)) => pc'[w] = "sweep"
          /\ (pc[w] = "sweep" /\ StepsOn(w)) => pc'[w] = "sleep"
          /\ (pc[w] = "sleep" /\ StepsOn(w)) => pc'[w] = "probe"
          /\ path[w] = "ANCESTOR_DEAD" => path'[w] = "ANCESTOR_DEAD"
          /\ (path[w] = "ANCESTOR_DEAD" /\ st[w] = "running"
                /\ st[child_pid[w]] = "zombie")
                => (st'[child_pid[w]] = "zombie" \/ st'[w] # "running")]_vars

\* C11 witness: the Launcher has exited with 1 on the ancestor-dead branch
\* although its Supervised Child had terminated with status 3.
C11_Witness ==
    /\ path["Launcher"] = "ANCESTOR_DEAD"
    /\ status["Launcher"] = Exited(1)
    /\ "Launcher" \notin Killed
    /\ st["Intermediate"] \in {"zombie", "gone"}
    /\ status["Intermediate"] = Exited(3)
    /\ status["Target"] = Exited(3)

\* ------------------------------------------- SIGCHLD inherited as "ignore"

\* When the disposition of SIGCHLD inherited through exec is "ignore", the
\* kernel discards a terminated child of a Watchdog instead of keeping it as
\* a zombie; waitpid then fails with ECHILD.
AutoReap(p) ==
    /\ p \in {"Intermediate", "Target"}
    /\ st[p] = "zombie" /\ st[ParentOf(p)] = "running"
    /\ st' = [st EXCEPT ![p] = "gone"]
    /\ UNCHANGED <<argc, termIgnored, parent, status, pc, pgid, parent_pid,
                   child_pid, others, execed, tgtIgnoresTerm, path, sent,
                   extKilled>>

NextChldIgnored == Next \/ \E p \in Procs : AutoReap(p)

\* The supervisor started with SIGCHLD ignored.
SpecChldIgnored == Init /\ [][NextChldIgnored]_vars

\* Watchdog w leaves the targeted wait by a step of its own.
LeavesWait(w) ==
    /\ pc[w] = "wait" /\ st[w] = "running" /\ pc'[w] # "wait"
    /\ ~WIFSIGNALED(status'[w])

\* C12: a targeted wait that fails with ECHILD (the child no longer exists)
\* makes the Watchdog leave POLLING and exit with status 0; a wait that
\* reports no status change keeps it in POLLING.
C12_ChildLostExitsZero ==
    [][\A w \in Watchdogs :
          /\ (LeavesWait(w) /\ st[child_pid[w]] = "gone")
                => /\ path'[w] = "CHILD_LOST"
                   /\ st'[w] = "zombie" /\ status'[w] = Exited(0)
          /\ (LeavesWait(w) /\ st[child_pid[w]] = "running")
                => /\ path'[w] = "POLLING"
                   /\ st'[w] = "running" /\ pc'[w] = "sweep"
          /\ path'[w] = "CHILD_LOST" => status'[w] = Exited(0)]_vars

\* C12 witness: the command ended, its status was discarded, and the
\* Intermediate has exited with 0 on the child-lost branch.
C12_Witness ==
    /\ Undisturbed
    /\ status["Target"] = Exited(3) /\ st["Target"] = "gone"
    /\ path["Intermediate"] = "CHILD_LOST"
    /\ status["Intermediate"] = Exited(0)

\* The exit status that transition 2 gives for a child's wait status s: the
\* exit code, or 128 plus the signal number.
Translated(s) ==
    IF s.kind = "exited" THEN Exited(s.val) ELSE Exited(128 + s.val)

\* Watchdog w, in its reap loop, reaps its Supervised Child in this step.
SweepReapsChild(w) ==
    /\ pc[w] = "sweep" /\ st[w] = "running"
    /\ st[child_pid[w]] = "zombie" /\ st'[child_pid[w]] = "gone"

\* The Launcher, in its reap loop, reaps another child in this step.
SweepReapsOther == others'.zombie < others.zombie

\* C13: when the reap loop is what reaps the Supervised Child (it terminated
\* after the targeted wait of the same iteration), the Watchdog exits in that
\* step with the status the targeted wait would have produced; reaping
\* another child leaves the Watchdog in POLLING, still in the loop.
C13_SweepTranslatesChild ==
    [][/\ \A w \in Watchdogs :
             SweepReapsChild(w) =>
                 /\ st'[w] = "zombie" /\ path'[w] = "CHILD_EXITED"
                 /\ status'[w] = Translated(status[child_pid[w]])
                 /\ status'[w] = Exited(ChildExitCode(status[child_pid[w]]))
       /\ SweepReapsOther =>
             /\ pc["Launcher"] = "sweep" /\ pc'["Launcher"] = "sweep"
             /\ st'["Launcher"] = "running" /\ path'["Launcher"] = "POLLING"
             /\ st' = st /\ status' = status]_vars

\* C13 witness: the Intermediate is in its reap loop and the command, still
\* running at the targeted wait of this iteration, has since been killed by
\* SIGKILL: the reap loop is what will collect it.
C13_Witness ==
    /\ pc["Intermediate"] = "sweep" /\ st["Intermediate"] = "running"
    /\ st["Target"] = "zombie" /\ status["Target"] = Signaled(SIGKILL)
    /\ Undisturbed

\* C14: a Watchdog exits on the child-exit branch only after it has collected
\* its Supervised Child's status; so once the Target has terminated and the
\* Launcher has finished (original parent alive, no Watchdog killed from
\* outside), the Target was reaped by the Intermediate and the Intermediate
\* by the Launcher, and no zombie is left under a live Watchdog.
C14_NoZombieLeft ==
    /\ \A w \in Watchdogs :
          path[w] = "CHILD_EXITED" =>
              /\ st[child_pid[w]] = "gone"
              /\ Terminated(w)
    /\ (Undisturbed /\ Terminated("Target") /\ Terminated("Launcher")) =>
          /\ st["Target"] = "gone" /\ st["Intermediate"] = "gone"
          /\ path["Intermediate"] = "CHILD_EXITED"
          /\ path["Launcher"] = "CHILD_EXITED"
          /\ \A p \in {"Intermediate", "Target"} :
                ~(st[p] = "zombie" /\ st[ParentOf(p)] = "running")

\* C14 witness: the command exited with 0, and the whole chain was collected:
\* Target by the Intermediate, Intermediate by the Launcher, Launcher by the
\* original parent.
C14_Witness ==
    /\ Undisturbed /\ execed
    /\ status["Target"] = Exited(0)
    /\ path["Intermediate"] = "CHILD_EXITED"
    /\ path["Launcher"] = "CHILD_EXITED"
    /\ \A p \in Procs : st[p] = "gone"

\* The places of run_watchdog and kill_process_group, and of the two forks.
WatchdogPlaces ==
    {"probe", "wait", "sweep", "sleep", "kpg", "kpg_term", "kpg_grace",
     "kpg_kill", "exit_dead"}
ForkPlaces == {"first_fork", "second_fork"}

\* The process that Watchdog w's fork creates.
ChildOf(w) == IF w = "Launcher" THEN "Intermediate" ELSE "Target"

\* C15: at most two duplications happen, in sequence, the first only in the
\* Launcher and the second only in the Intermediate; only the Launcher and
\* the Intermediate run the Watchdog loop, each with exactly one Supervised
\* Child; the Target neither runs a Watchdog nor duplicates itself.
C15_TwoForksTwoWatchdogs ==
    /\ [](/\ st["Target"] # "none" => st["Intermediate"] # "none"
          /\ child_pid["Launcher"] \in {NoPid, "Intermediate"}
          /\ child_pid["Intermediate"] \in {NoPid, "Target"}
          /\ \A w \in Watchdogs :
                /\ pc[w] \in WatchdogPlaces => child_pid[w] # NoPid
                /\ path[w] # "NONE" <=> child_pid[w] # NoPid
                /\ child_pid[w] # NoPid <=> st[ChildOf(w)] # "none"
          /\ pc["Target"] \notin WatchdogPlaces \cup ForkPlaces
          /\ pc["Launcher"] # "second_fork"
          /\ pc["Intermediate"] # "first_fork")
    /\ [][/\ (st["Intermediate"] = "none" /\ st'["Intermediate"] # "none")
                => (pc["Launcher"] = "first_fork"
                      /\ pc'["Launcher"] \notin ForkPlaces)
          /\ (st["Target"] = "none" /\ st'["Target"] # "none")
                => (pc["Intermediate"] = "second_fork"
                      /\ pc'["Intermediate"] \notin ForkPlaces)
          /\ \A p \in Procs :
                /\ pc'[p] \in ForkPlaces =>
                      pc[p] \in ForkPlaces \cup {"main", "unborn"}
                /\ st[p] # "none" => st'[p] # "none"
          /\ \A w \in Watchdogs :
                child_pid[w] # NoPid => child_pid'[w] = child_pid[w]]_vars

\* C15 witness: both duplications are done, the Launcher and the Intermediate
\* are in the Watchdog loop with their one child each, and the Target runs
\* the command.
C15_Witness ==
    /\ pc["Launcher"] = "sweep" /\ child_pid["Launcher"] = "Intermediate"
    /\ pc["Intermediate"] = "sleep" /\ child_pid["Intermediate"] = "Target"
    /\ pc["Target"] = "cmd" /\ \A p \in Procs : st[p] = "running"

\* C16: the Launcher's Monitored Ancestor is the original parent, captured
\* before any duplication; the Intermediate's is the Launcher, known from its
\* first moment (captured by the Launcher before the first duplication);
\* neither identifier nor the Supervised Child identifier changes afterwards,
\* whatever becomes of the processes they name.
C16_IdentifiersFixed ==
    /\ [](/\ parent_pid["Launcher"] \in {NoPid, "Parent"}
          /\ parent_pid["Intermediate"] \in {NoPid, "Launcher"}
          /\ pc["Launcher"] = "first_fork" =>
                /\ parent_pid["Launcher"] = "Parent"
                /\ st["Intermediate"] = "none"
          /\ st["Intermediate"] = "none" =>
                parent_pid["Intermediate"] = NoPid
          /\ st["Intermediate"] # "none" =>
                /\ parent_pid["Intermediate"] = "Launcher"
                /\ parent_pid["Launcher"] = "Parent"
          /\ \A w \in Watchdogs :
                pc[w] \in WatchdogPlaces =>
                    /\ parent_pid[w] = ParentOf(w)
                    /\ child_pid[w] = ChildOf(w))
    /\ [][\A w \in Watchdogs :
             /\ parent_pid[w] # NoPid => parent_pid'[w] = parent_pid[w]
             /\ child_pid[w] # NoPid => child_pid'[w] = child_pid[w]]_vars

\* C16 witness: the original parent and the Launcher are both gone and the
\* Intermediate, whose probe has just failed, still holds the Launcher's identifier
\* and the Target's.
C16_Witness ==
    /\ parent = "gone" /\ st["Launcher"] = "gone"
    /\ pc["Intermediate"] = "kpg" /\ st["Intermediate"] = "running"
    /\ parent_pid["Intermediate"] = "Launcher"
    /\ child_pid["Intermediate"] = "Target"
    /\ parent_pid["Launcher"] = "Parent"
    /\ child_pid["Launcher"] = "Intermediate"

\* Watchdog w is running somewhere in run_watchdog or kill_process_group.
InLoop(w) == st[w] = "running" /\ pc[w] \in WatchdogPlaces

\* The Supervised Child of w has terminated.
ChildTerminated(w) == st[ChildOf(w)] \in {"zombie", "gone"}

\* C17: under fair scheduling every Watchdog whose Supervised Child has
\* terminated, or whose Monitored Ancestor's identifier no longer names a
\* process, eventually exits; and a Watchdog in its loop can always take its
\* next step, whatever the state of its child (no step blocks).
C17_WatchdogEventuallyExits ==
    /\ [](\A w \in Watchdogs : InLoop(w) => ENABLED WatchdogStep(w))
    /\ \A w \in Watchdogs :
          (InLoop(w) /\ (ChildTerminated(w) \/ AncestorGone(w)))
              ~> (st[w] # "running")

\* C17 witness: the Intermediate, which ignores SIGTERM, has lost the
\* Launcher while the Target was still running, has gone through both
\* phases and the grace sleep of the Termination Protocol and has ended.
C17_Witness ==
    /\ st["Launcher"] = "gone"
    /\ path["Intermediate"] = "ANCESTOR_DEAD"
    /\ Len(sent) = 2
    /\ st["Intermediate"] # "running"
    /\ status["Intermediate"] = Signaled(SIGKILL)
    /\ "Intermediate" \notin Killed

\* C19: once a termination signal from outside has been delivered to a
\* Watchdog, a running Target is not left without its Watchdog: the
\* Intermediate that supervises it is still there, or the Target has been
\* terminated.
C19_TargetNeverUnsupervised ==
    \A w \in Watchdogs :
        (w \in Killed /\ status[w] = Signaled(SIGTERM)) =>
            (st["Target"] = "running" => st["Intermediate"] = "running")

\* Watchdog w has sent no signal to the group.
SentNothing(w) == \A i \in 1..Len(sent) : sent[i].by # w

\* C20: a signal is delivered to the group only by a Watchdog that is inside
\* the Termination Protocol because its probe failed, at a time when the
\* identifier it probes names no process; a Watchdog on any other path
\* (CHILD_EXITED, CHILD_LOST, a wait error, or still polling) has sent
\* nothing, and nothing once sent is withdrawn.
C20_SignalsOnlyAfterFailedProbe ==
    /\ [](\A w \in Watchdogs : path[w] # "ANCESTOR_DEAD" => SentNothing(w))
    /\ [][sent' # sent =>
            \E w \in Watchdogs :
                /\ st[w] = "running"
                /\ pc[w] \in {"kpg_term", "kpg_kill"}
                /\ path[w] = "ANCESTOR_DEAD"
                /\ AncestorGone(w)
                /\ sent' = Append(sent,
                                  [by |-> w,
                                   sig |-> IF pc[w] = "kpg_term"
                                           THEN SIGTERM ELSE SIGKILL])]_vars

\* C20 witness: the original parent vanished; the Launcher, leader of the
\* group, left having sent nothing, and the only deliveries are the two of
\* the Intermediate after its probe of the vanished Launcher failed.
C20_Witness ==
    /\ parent = "gone" /\ st["Launcher"] = "gone"
    /\ path["Launcher"] = "ANCESTOR_DEAD" /\ SentNothing("Launcher")
    /\ path["Intermediate"] = "ANCESTOR_DEAD"
    /\ sent = << [by |-> "Intermediate", sig |-> SIGTERM],
                 [by |-> "Intermediate", sig |-> SIGKILL] >>

====
